---------------------------- MODULE Spec2Model ----------------------------
(***************************************************************************)
(* Keyboard chatter blocker: the per-key chatter classifier ShouldBlockKey *)
(* of the two low-level-hook builds,                                       *)
(*   "baseline" : src/KbChatterBlocker.cpp  (85 / 30 / 150 ms)             *)
(*   "full"     : src/unnamed/part_002      (81 / 15 / 200 ms, plus the    *)
(*                intentional double-tap override, 20 ms)                  *)
(* One hook call is one step: the steady clock advances, ShouldBlockKey    *)
(* runs to completion on the key's KeyState, and the call is logged.       *)
(***************************************************************************)
EXTENDS Integers, Sequences, FiniteSets, TLC

VARIABLES
    variant,    \* which build is running: "baseline" or "full"
    now,        \* last reading of GetCurrentTimeMs() (steady clock, ms)
    keyStates,  \* std::unordered_map<DWORD, KeyState> keyStates
    trace       \* history: one record per ShouldBlockKey call

vars == <<variant, now, keyStates, trace>>

-----------------------------------------------------------------------------
(* Configuration constants of the two builds *)

CHATTER_THRESHOLD_MS == 85

INITIAL_CHATTER_THRESHOLD_MS == 81

MIN_RELEASE_DURATION_MS == 20

REPEAT_CHATTER_THRESHOLD_MS(v) == IF v = "baseline" THEN 30 ELSE 15

REPEAT_TRANSITION_DELAY_MS(v) == IF v = "baseline" THEN 150 ELSE 200

\* the strict threshold of build v (it is named differently in the two files)
InitialThreshold(v) ==
    IF v = "baseline" THEN CHATTER_THRESHOLD_MS ELSE INITIAL_CHATTER_THRESHOLD_MS

Variants == {"baseline", "full"}

-----------------------------------------------------------------------------
(* Bounds of the model *)

\* first clock reading of a run: GetCurrentTimeMs() is the steady clock's
\* time since its epoch, which is positive once the process runs
StartTime == 1

\* hook calls per run under Spec
MaxEvents == 4

\* hook calls per run under SpecKeys
MaxKeysEvents == 3

\* hook calls before a press train, and presses of the train, under SpecBurst
MaxSetup == 2

MaxBurst == 31

\* virtual-key codes that take part ('A' and 'B'; VK_ESCAPE is not one of them)
KeyA == 65

KeyB == 66

VKeys == {KeyA, KeyB}

\* clock advances between two hook calls under Spec
Deltas(v) ==
    IF v = "baseline" THEN {0, 1, 11, 20, 84, 151}
                      ELSE {0, 1, 10, 19, 20, 80, 201}

\* clock advances under SpecKeys
KeysDeltas == {0, 1, 151}

\* clock advances before a press train under SpecBurst
SetupDeltas(v) == {0, 20, REPEAT_TRANSITION_DELAY_MS(v) + 1}

-----------------------------------------------------------------------------
(* struct KeyState and ShouldBlockKey *)

\* a default-constructed KeyState (what keyStates[vkCode] creates)
NewKeyState ==
    [lastPressTime |-> 0, lastReleaseTime |-> 0,
     inRepeatMode |-> FALSE, blockedCount |-> 0]

\* if (state.lastPressTime == 0)
IsFirstPress(state) == state.lastPressTime = 0

\* the first-press branch: record the time, touch nothing else
FirstPress(state, currentTime) ==
    [state |-> [state EXCEPT !.lastPressTime = currentTime], block |-> FALSE]

\* faulty variant: any release after the last press counts as a double tap
IsDoubleTap_NoDuration(v, state, currentTime) ==
    /\ v = "full"
    /\ state.lastReleaseTime > state.lastPressTime

\* faulty variant: the release must be strictly longer than the minimum
IsDoubleTap_Strict(v, state, currentTime) ==
    /\ v = "full"
    /\ state.lastReleaseTime > state.lastPressTime
    /\ currentTime - state.lastReleaseTime > MIN_RELEASE_DURATION_MS

\* the double-tap test of the full build; the baseline build has none
IsDoubleTap(v, state, currentTime) ==
    /\ v = "full"
    /\ state.lastReleaseTime > state.lastPressTime
    /\ currentTime - state.lastReleaseTime >= MIN_RELEASE_DURATION_MS

\* faulty variant: the double-tap branch forgets to record the press time
DoubleTap_NoPressUpdate(state, currentTime) ==
    [state |-> [state EXCEPT !.inRepeatMode = FALSE], block |-> FALSE]

\* the double-tap branch
DoubleTap(state, currentTime) ==
    [state |-> [state EXCEPT !.lastPressTime = currentTime,
                             !.inRepeatMode = FALSE],
     block |-> FALSE]

\* faulty variant: the transition delay is taken for the strict threshold
Threshold_UsesDelay(v, state) ==
    IF state.inRepeatMode THEN REPEAT_CHATTER_THRESHOLD_MS(v)
                          ELSE REPEAT_TRANSITION_DELAY_MS(v)

\* faulty variant: the strict threshold is used in both phases
Threshold_AlwaysInitial(v, state) == InitialThreshold(v)

\* int threshold: chosen from inRepeatMode as it is before this press
Threshold(v, state) ==
    IF state.inRepeatMode THEN REPEAT_CHATTER_THRESHOLD_MS(v)
                          ELSE InitialThreshold(v)

\* faulty variant: the transition is tested against the repeat threshold
RepeatModeAfter_WrongConstant(v, state, timeSincePress) ==
    IF state.inRepeatMode THEN TRUE
    ELSE timeSincePress > REPEAT_CHATTER_THRESHOLD_MS(v)

\* inRepeatMode after the threshold selection
RepeatModeAfter(v, state, timeSincePress) ==
    IF state.inRepeatMode THEN TRUE
    ELSE timeSincePress > REPEAT_TRANSITION_DELAY_MS(v)

\* faulty variant: a press exactly at the threshold is still blocked
WithinThreshold_Inclusive(timeSincePress, threshold) ==
    timeSincePress <= threshold

\* if (timeSincePress < threshold)
WithinThreshold(timeSincePress, threshold) == timeSincePress < threshold

\* faulty variant: the counter is bumped twice
CountBlocked_Twice(state) == [state EXCEPT !.blockedCount = @ + 2]

\* state.blockedCount++
CountBlocked(state) == [state EXCEPT !.blockedCount = @ + 1]

\* faulty variant: a blocked press also moves the reference point
ThresholdPress_BlockedMovesPress(v, state, currentTime) ==
    LET timeSincePress == currentTime - state.lastPressTime
        threshold == Threshold(v, state)
        s1 == [state EXCEPT
                 !.inRepeatMode = RepeatModeAfter(v, state, timeSincePress),
                 !.lastPressTime = currentTime]
    IN  IF WithinThreshold(timeSincePress, threshold)
        THEN [state |-> CountBlocked(s1), block |-> TRUE]
        ELSE [state |-> s1, block |-> FALSE]

\* the threshold branch of a press
ThresholdPress(v, state, currentTime) ==
    LET timeSincePress == currentTime - state.lastPressTime
        threshold == Threshold(v, state)
        s1 == [state EXCEPT
                 !.inRepeatMode = RepeatModeAfter(v, state, timeSincePress)]
    IN  IF WithinThreshold(timeSincePress, threshold)
        THEN [state |-> CountBlocked(s1), block |-> TRUE]
        ELSE [state |-> [s1 EXCEPT !.lastPressTime = currentTime],
              block |-> FALSE]

\* faulty variant: the first-press check is missing
KeyDown_NoFirstPress(v, state, currentTime) ==
    IF IsDoubleTap(v, state, currentTime)
    THEN DoubleTap(state, currentTime)
    ELSE ThresholdPress(v, state, currentTime)

\* ShouldBlockKey, isKeyDown branch
KeyDown(v, state, currentTime) ==
    IF IsFirstPress(state) THEN FirstPress(state, currentTime)
    ELSE IF IsDoubleTap(v, state, currentTime)
         THEN DoubleTap(state, currentTime)
         ELSE ThresholdPress(v, state, currentTime)

\* faulty variant: the release also moves the press reference point
KeyUp_TouchesPress(state, currentTime) ==
    [state |-> [state EXCEPT !.lastReleaseTime = currentTime,
                             !.lastPressTime = currentTime,
                             !.inRepeatMode = FALSE],
     block |-> FALSE]

\* faulty variant: the release forgets to reset inRepeatMode
KeyUp_KeepsRepeatMode(state, currentTime) ==
    [state |-> [state EXCEPT !.lastReleaseTime = currentTime],
     block |-> FALSE]

\* ShouldBlockKey, release branch
KeyUp(state, currentTime) ==
    [state |-> [state EXCEPT !.lastReleaseTime = currentTime,
                             !.inRepeatMode = FALSE],
     block |-> FALSE]

\* bool ShouldBlockKey(DWORD vkCode, bool isKeyDown), on the key's KeyState
ShouldBlockKey(v, state, isKeyDown, currentTime) ==
    IF isKeyDown THEN KeyDown(v, state, currentTime)
                 ELSE KeyUp(state, currentTime)

\* faulty variant: one KeyState shared by every key
StoreKeyState_Shared(states, vkCode, state) ==
    [k \in DOMAIN states |-> state]

\* KeyState& state = keyStates[vkCode]: the writes go to that key's entry
StoreKeyState(states, vkCode, state) == [states EXCEPT ![vkCode] = state]

-----------------------------------------------------------------------------
(* The hook *)

Init ==
    /\ variant \in Variants
    /\ now = StartTime
    /\ keyStates = [k \in VKeys |-> NewKeyState]
    /\ trace = <<>>

\* the classifier driven with arbitrary timestamps: the first one may be 0
InitAnyTime ==
    /\ variant \in Variants
    /\ now \in 0..StartTime
    /\ keyStates = [k \in VKeys |-> NewKeyState]
    /\ trace = <<>>

\* LowLevelKeyboardProc for one event of key vkCode, d ms after the last one
LowLevelKeyboardProc(vkCode, isKeyDown, d) ==
    LET currentTime == now + d
        r == ShouldBlockKey(variant, keyStates[vkCode], isKeyDown, currentTime)
        after == StoreKeyState(keyStates, vkCode, r.state)
    IN  /\ now' = currentTime
        /\ keyStates' = after
        /\ trace' = Append(trace,
               [vkCode |-> vkCode, isKeyDown |-> isKeyDown,
                time |-> currentTime, block |-> r.block,
                before |-> keyStates, after |-> after])
        /\ UNCHANGED variant

KeyDownEvent ==
    /\ Len(trace) < MaxEvents
    /\ \E d \in Deltas(variant) : LowLevelKeyboardProc(KeyA, TRUE, d)

KeyUpEvent ==
    /\ Len(trace) < MaxEvents
    /\ \E d \in Deltas(variant) : LowLevelKeyboardProc(KeyA, FALSE, d)

Next == KeyDownEvent \/ KeyUpEvent

Spec == Init /\ [][Next]_vars

\* two keys, interleaved
KeysDownEvent ==
    /\ Len(trace) < MaxKeysEvents
    /\ \E k \in VKeys, d \in KeysDeltas : LowLevelKeyboardProc(k, TRUE, d)

KeysUpEvent ==
    /\ Len(trace) < MaxKeysEvents
    /\ \E k \in VKeys, d \in KeysDeltas : LowLevelKeyboardProc(k, FALSE, d)

NextKeys == KeysDownEvent \/ KeysUpEvent

SpecKeys == InitAnyTime /\ [][NextKeys]_vars

\* a few events, then a train of presses of one key 1 ms apart
BurstSetup ==
    /\ Len(trace) < MaxSetup
    /\ \E isKeyDown \in BOOLEAN, d \in SetupDeltas(variant) :
          LowLevelKeyboardProc(KeyA, isKeyDown, d)

BurstPress ==
    /\ trace # <<>>
    /\ trace[Len(trace)].isKeyDown
    /\ Len(trace) < MaxSetup + MaxBurst
    /\ LowLevelKeyboardProc(trace[Len(trace)].vkCode, TRUE, 1)

NextBurst == BurstSetup \/ BurstPress

SpecBurst == Init /\ [][NextBurst]_vars

-----------------------------------------------------------------------------
(* Reading the history *)

Calls == DOMAIN trace

\* the KeyState of the call's own key before and after call i
Before(i) == trace[i].before[trace[i].vkCode]

After(i) == trace[i].after[trace[i].vkCode]

IsPress(i) == trace[i].isKeyDown

IsRelease(i) == ~trace[i].isKeyDown

Accepted(i) == trace[i].isKeyDown /\ ~trace[i].block

Blocked(i) == trace[i].isKeyDown /\ trace[i].block

\* the calls for key k
CallsOf(k) == {i \in Calls : trace[i].vkCode = k}

\* the calls for the key of call i that lie strictly between i and j
Between(i, j) == {m \in CallsOf(trace[i].vkCode) : i < m /\ m < j}

MaxOf(S) == CHOOSE x \in S : \A y \in S : y <= x

\* the previous call for the same key, 0 when there is none
PrevCall(i) ==
    LET earlier == {m \in CallsOf(trace[i].vkCode) : m < i}
    IN  IF earlier = {} THEN 0 ELSE MaxOf(earlier)

\* the last accepted press of the same key before call i, 0 when there is
\* none
PrevAccepted(i) ==
    LET earlier == {m \in CallsOf(trace[i].vkCode) : m < i /\ Accepted(m)}
    IN  IF earlier = {} THEN 0 ELSE MaxOf(earlier)

\* dtPress of call i: the time since the last accepted press of its key
\* (read only where PrevAccepted(i) # 0)
DtPress(i) == trace[i].time - trace[PrevAccepted(i)].time

-----------------------------------------------------------------------------
(* C3 *)

\* C3: the first press of a key with no earlier event is not blocked at any
\* timestamp (0 included), records the timestamp as lastPressTime and leaves
\* inRepeatMode false and blockedCount 0.
C3_FirstPressPasses ==
    \A i \in Calls :
        (IsPress(i) /\ PrevCall(i) = 0) =>
            /\ ~trace[i].block
            /\ After(i).lastPressTime = trace[i].time
            /\ After(i).inRepeatMode = FALSE
            /\ After(i).blockedCount = 0

\* a first press at timestamp 0 and a first press of the other key later on
C3_Witness ==
    \E i, j \in Calls :
        /\ IsPress(i) /\ PrevCall(i) = 0 /\ trace[i].time = 0
        /\ IsPress(j) /\ PrevCall(j) = 0 /\ trace[j].time > 0
        /\ ~trace[i].block /\ ~trace[j].block

-----------------------------------------------------------------------------
(* C9 *)

\* C9: blockedCount of a key grows by exactly 1 on each blocked press of it,
\* is unchanged by accepted presses and releases, and so always equals the
\* number of blocked presses of that key so far.
C9_BlockedCountCounts ==
    /\ \A i \in Calls :
          After(i).blockedCount =
              Before(i).blockedCount + (IF Blocked(i) THEN 1 ELSE 0)
    /\ \A k \in VKeys :
          keyStates[k].blockedCount =
              Cardinality({i \in CallsOf(k) : Blocked(i)})

\* an accepted press, two blocked presses and a release: the count is 2
C9_Witness ==
    \E i, j, m, n \in Calls :
        /\ i < j /\ j < m /\ m < n
        /\ Accepted(i) /\ Blocked(j) /\ Blocked(m) /\ IsRelease(n)
        /\ keyStates[KeyA].blockedCount = 2

-----------------------------------------------------------------------------
(* C10 *)

\* C10: every release returns not-blocked, sets lastReleaseTime to its
\* timestamp and inRepeatMode to false, and leaves lastPressTime and
\* blockedCount unchanged.
C10_ReleaseNeverSuppressed ==
    \A i \in Calls :
        IsRelease(i) =>
            /\ ~trace[i].block
            /\ After(i).lastReleaseTime = trace[i].time
            /\ After(i).inRepeatMode = FALSE
            /\ After(i).lastPressTime = Before(i).lastPressTime
            /\ After(i).blockedCount = Before(i).blockedCount

\* a release of a key that is in repeat mode and has a blocked press behind it
C10_Witness ==
    \E i \in Calls :
        /\ IsRelease(i)
        /\ Before(i).inRepeatMode
        /\ Before(i).blockedCount > 0
        /\ Before(i).lastPressTime > 0

-----------------------------------------------------------------------------
(* C6 *)

\* the double-tap case of the full build: the key's last release is later
\* than its last accepted press and at least 20 ms before call i
DoubleTapCase(i) ==
    /\ variant = "full"
    /\ IsRelease(PrevCall(i))
    /\ trace[PrevCall(i)].time > trace[PrevAccepted(i)].time
    /\ trace[i].time - trace[PrevCall(i)].time >= 20

\* C6: after any release inRepeatMode is false, and the next press of that
\* key (one with an accepted press to measure from) is judged against the
\* initial threshold, never the repeat threshold: in the baseline build it is
\* blocked iff dtPress < 85; in the full build it is blocked iff
\* dtPress < 81 and the double-tap override does not apply.
C6_ReleaseResetsRepeatMode ==
    \A i \in Calls :
        /\ IsRelease(i) => After(i).inRepeatMode = FALSE
        /\ (IsPress(i) /\ PrevCall(i) # 0 /\ IsRelease(PrevCall(i))
              /\ PrevAccepted(i) # 0) =>
               (trace[i].block <=>
                   (DtPress(i) < InitialThreshold(variant)
                      /\ ~DoubleTapCase(i)))

\* a key in repeat mode is released and pressed again 40 ms after its last
\* accepted press: blocked, though 40 is past the repeat threshold
C6_Witness ==
    \E i \in Calls :
        /\ IsPress(i) /\ PrevCall(i) # 0 /\ IsRelease(PrevCall(i))
        /\ Before(PrevCall(i)).inRepeatMode
        /\ PrevAccepted(i) # 0
        /\ DtPress(i) >= REPEAT_CHATTER_THRESHOLD_MS(variant)
        /\ DtPress(i) < InitialThreshold(variant)
        /\ trace[i].block

-----------------------------------------------------------------------------
(* C7 *)

\* C7: in the full build every press whose key was last released after its
\* last accepted press, and at least 20 ms before this press, is accepted
\* whatever dtPress is; it sets lastPressTime to the press time and leaves
\* inRepeatMode false.
C7_DoubleTapAccepted ==
    \A i \in Calls :
        (variant = "full" /\ IsPress(i)
           /\ Before(i).lastReleaseTime > Before(i).lastPressTime
           /\ trace[i].time - Before(i).lastReleaseTime >= 20) =>
            /\ ~trace[i].block
            /\ After(i).lastPressTime = trace[i].time
            /\ After(i).inRepeatMode = FALSE

\* press t0, release t0+10, press t0+30: accepted 30 ms after the press
C7_Witness ==
    \E i, j, m \in Calls :
        /\ variant = "full"
        /\ i < j /\ j < m
        /\ Accepted(i) /\ IsRelease(j) /\ Accepted(m)
        /\ trace[j].time = trace[i].time + 10
        /\ trace[m].time = trace[i].time + 30
        /\ PrevAccepted(m) = i

-----------------------------------------------------------------------------
(* C4 *)

\* C4 as stated: in the baseline build, whenever the last accepted press of
\* a key was at t0, a next press at t0+84 is blocked and a next press at
\* t0+85 is accepted.
C4_Original ==
    \A i \in Calls :
        (variant = "baseline" /\ IsPress(i) /\ PrevAccepted(i) # 0) =>
            /\ DtPress(i) = 84 => trace[i].block
            /\ DtPress(i) = 85 => ~trace[i].block

\* C4 (amended): in the baseline build, when the last accepted press of a key
\* was at t0 and the key is not in repeat mode, a next press at t0+84 is
\* blocked; a next press at t0+85 is accepted in either mode.
C4_ThresholdBoundary ==
    \A i \in Calls :
        (variant = "baseline" /\ IsPress(i) /\ PrevAccepted(i) # 0) =>
            /\ (DtPress(i) = 84 /\ ~Before(i).inRepeatMode) => trace[i].block
            /\ DtPress(i) = 85 => ~trace[i].block

\* press t0, press t0+84 blocked, press t0+85 accepted, never in repeat mode
C4_Witness ==
    \E i, j, m \in Calls :
        /\ variant = "baseline"
        /\ i < j /\ j < m
        /\ Accepted(i) /\ Blocked(j) /\ Accepted(m)
        /\ trace[j].time = trace[i].time + 84
        /\ trace[m].time = trace[i].time + 85
        /\ ~Before(j).inRepeatMode /\ ~Before(m).inRepeatMode
        /\ PrevAccepted(j) = i /\ PrevAccepted(m) = i

-----------------------------------------------------------------------------
(* C5 *)

\* no release of the key of call i after call i and up to call j
NoReleaseFrom(i, j) ==
    \A m \in CallsOf(trace[i].vkCode) : (i < m /\ m <= j) => IsPress(m)

\* C5: in the baseline build a press at t0+151 after an accepted press at
\* t0, with the key not in repeat mode, is accepted and sets inRepeatMode;
\* with no release in between, a following press 20 ms after it is blocked
\* and a following press 31 ms after it is accepted, and inRepeatMode stays
\* true until the next release.
C5_RepeatModeTransition ==
    \A i \in Calls :
        (variant = "baseline" /\ IsPress(i) /\ PrevAccepted(i) # 0
           /\ ~Before(i).inRepeatMode /\ DtPress(i) = 151) =>
            /\ ~trace[i].block
            /\ After(i).inRepeatMode
            /\ \A j \in CallsOf(trace[i].vkCode) :
                  (i < j /\ NoReleaseFrom(i, j)) =>
                      /\ After(j).inRepeatMode
                      /\ (PrevAccepted(j) = i /\ DtPress(j) = 20)
                           => trace[j].block
                      /\ (PrevAccepted(j) = i /\ DtPress(j) = 31)
                           => ~trace[j].block

\* press t0, press t0+151, press t0+171 blocked, press t0+182 accepted
C5_Witness ==
    \E i, j, m, n \in Calls :
        /\ variant = "baseline"
        /\ i < j /\ j < m /\ m < n
        /\ Accepted(i) /\ Accepted(j) /\ Blocked(m) /\ Accepted(n)
        /\ ~Before(j).inRepeatMode /\ After(j).inRepeatMode
        /\ trace[j].time = trace[i].time + 151
        /\ trace[m].time = trace[j].time + 20
        /\ trace[n].time = trace[j].time + 31
        /\ keyStates[trace[i].vkCode].inRepeatMode

-----------------------------------------------------------------------------
(* C2 *)

\* the press that last switched key k into repeat mode, 0 when there is none
FlipCall(k) ==
    LET flips == {i \in CallsOf(k) :
                     ~Before(i).inRepeatMode /\ After(i).inRepeatMode}
    IN  IF flips = {} THEN 0 ELSE MaxOf(flips)

\* C2: in every reachable state where inRepeatMode of a key is true, no
\* release of that key occurred between the previous accepted press and the
\* press that set inRepeatMode, nor since.
C2_RepeatModeOnlyWhileHeld ==
    \A k \in VKeys :
        keyStates[k].inRepeatMode =>
            LET f == FlipCall(k)
            IN  /\ f # 0
                /\ \A m \in CallsOf(k) :
                      (PrevAccepted(f) < m /\ m # f) => IsPress(m)

-----------------------------------------------------------------------------
(* C1 *)

\* call i is an accepted press at t0 and the calls for its key after it, up
\* to call j, are presses at t0+1, t0+2, ...
PressTrain(i, j) ==
    /\ i < j
    /\ Accepted(i)
    /\ trace[j].vkCode = trace[i].vkCode
    /\ \A m \in CallsOf(trace[i].vkCode) :
          (i < m /\ m <= j) =>
              /\ IsPress(m)
              /\ trace[m].time =
                    trace[i].time + Cardinality(Between(i, m)) + 1

\* C1 as stated: after an accepted press at t0, presses of the key at t0+1,
\* ..., t0+k with every offset below the initial threshold are all blocked
\* and lastPressTime stays t0.
C1_Original ==
    \A i, j \in Calls :
        (PressTrain(i, j)
           /\ trace[j].time - trace[i].time < InitialThreshold(variant)) =>
            /\ trace[j].block
            /\ After(j).lastPressTime = trace[i].time

\* C1 (amended): after an accepted press at t0, presses of the key at t0+1,
\* ..., t0+k with every offset below the threshold in force after that press
\* (the initial threshold when the press leaves inRepeatMode false, the
\* repeat threshold when it leaves it true) are all blocked and
\* lastPressTime stays t0.
C1_BurstAbsorption ==
    \A i, j \in Calls :
        (PressTrain(i, j)
           /\ trace[j].time - trace[i].time < Threshold(variant, After(i))) =>
            /\ trace[j].block
            /\ After(j).lastPressTime = trace[i].time

\* a train of 25 blocked presses after an accepted press outside repeat mode
C1_Witness ==
    \E i, j \in Calls :
        /\ PressTrain(i, j)
        /\ ~After(i).inRepeatMode
        /\ trace[j].time = trace[i].time + 25
        /\ \A m \in Between(i, j) \cup {j} : Blocked(m)
        /\ keyStates[trace[i].vkCode].lastPressTime = trace[i].time

-----------------------------------------------------------------------------
(* C8 *)

\* ShouldBlockKey run on the calls evs of one key alone, from a fresh
\* KeyState: the final KeyState and the decisions
RECURSIVE RunAlone(_, _)
RunAlone(v, evs) ==
    IF evs = <<>> THEN [state |-> NewKeyState, blocks |-> <<>>]
    ELSE LET n == Len(evs)
             sofar == RunAlone(v, SubSeq(evs, 1, n - 1))
             r == ShouldBlockKey(v, sofar.state, evs[n].isKeyDown, evs[n].time)
         IN  [state |-> r.state, blocks |-> Append(sofar.blocks, r.block)]

\* the calls for key k, in order
HistoryOf(k) == SelectSeq(trace, LAMBDA e : e.vkCode = k)

\* C8: a call for key A leaves every field of every other key's KeyState
\* unchanged, and the decisions and the KeyState of key B are those of B's
\* own calls run alone, whatever calls of A are interleaved.
C8_KeysIndependent ==
    /\ \A i \in Calls : \A k \in VKeys \ {trace[i].vkCode} :
          trace[i].after[k] = trace[i].before[k]
    /\ \A k \in VKeys :
          LET h == HistoryOf(k)
              alone == RunAlone(variant, h)
          IN  /\ alone.state = keyStates[k]
              /\ alone.blocks = [n \in 1..Len(h) |-> h[n].block]

\* B is pressed, A is pressed in between, B's next press 1 ms after its
\* first is blocked while A's state records A's own press only
C8_Witness ==
    \E i, j, m \in Calls :
        /\ i < j /\ j < m
        /\ trace[i].vkCode = KeyB /\ Accepted(i)
        /\ trace[j].vkCode = KeyA /\ Accepted(j)
        /\ trace[m].vkCode = KeyB /\ Blocked(m)
        /\ keyStates[KeyA].blockedCount = 0
        /\ keyStates[KeyB].blockedCount = 1
        /\ keyStates[KeyA].lastPressTime # keyStates[KeyB].lastPressTime

-----------------------------------------------------------------------------
(* C11: the classifier driven with caller-supplied timestamps *)

\* hook calls per run under SpecNoisy
MaxNoisyEvents == 3

\* timestamp steps under SpecNoisy: a timestamp may lie before the last one
NoisyDeltas == {-10, 0, 10, 100}

NoisyDownEvent ==
    /\ Len(trace) < MaxNoisyEvents
    /\ \E d \in NoisyDeltas :
          now + d > 0 /\ LowLevelKeyboardProc(KeyA, TRUE, d)

NoisyUpEvent ==
    /\ Len(trace) < MaxNoisyEvents
    /\ \E d \in NoisyDeltas :
          now + d > 0 /\ LowLevelKeyboardProc(KeyA, FALSE, d)

NextNoisy == NoisyDownEvent \/ NoisyUpEvent

SpecNoisy == Init /\ [][NextNoisy]_vars

-----------------------------------------------------------------------------
(* C12 *)

\* C12: a blocked press changes nothing but blockedCount: lastPressTime,
\* lastReleaseTime and inRepeatMode are as before the call (a blocked press
\* never flips inRepeatMode to true).
C12_BlockedPressFrame ==
    \A i \in Calls :
        Blocked(i) =>
            /\ After(i).lastPressTime = Before(i).lastPressTime
            /\ After(i).lastReleaseTime = Before(i).lastReleaseTime
            /\ After(i).inRepeatMode = Before(i).inRepeatMode
            /\ After(i).blockedCount = Before(i).blockedCount + 1

\* a press outside repeat mode, after a release, blocked although it comes
\* later than the repeat threshold
C12_Witness ==
    \E i \in Calls :
        /\ Blocked(i)
        /\ ~Before(i).inRepeatMode
        /\ Before(i).lastReleaseTime > 0
        /\ DtPress(i) > REPEAT_CHATTER_THRESHOLD_MS(variant)

-----------------------------------------------------------------------------
(* C13 *)

\* the accepted presses of key k
AcceptedOf(k) == {i \in CallsOf(k) : Accepted(i)}

\* C13: lastPressTime of a key is 0 while no press of it was accepted and
\* otherwise the timestamp of its most recent accepted press; an accepted
\* press sets it to its own timestamp and a blocked press does not set it;
\* it never decreases.
C13_LastPressTimeTracksAccepted ==
    /\ \A k \in VKeys :
          keyStates[k].lastPressTime =
              IF AcceptedOf(k) = {} THEN 0
              ELSE trace[MaxOf(AcceptedOf(k))].time
    /\ \A i \in Calls :
          /\ Accepted(i) => After(i).lastPressTime = trace[i].time
          /\ Blocked(i) => After(i).lastPressTime = Before(i).lastPressTime
          /\ After(i).lastPressTime >= Before(i).lastPressTime

\* an accepted press, a later blocked press, a release and a double-tap
\* press: lastPressTime is the time of the last of them
C13_Witness ==
    \E i, j, m, n \in Calls :
        /\ i < j /\ j < m /\ m < n
        /\ Accepted(i) /\ Blocked(j) /\ IsRelease(m) /\ Accepted(n)
        /\ trace[j].time > trace[i].time
        /\ After(j).lastPressTime = trace[i].time
        /\ DoubleTapCase(n)
        /\ keyStates[trace[i].vkCode].lastPressTime = trace[n].time

-----------------------------------------------------------------------------
(* C14 *)

\* C14: two consecutive accepted presses of a key are at least the repeat
\* threshold apart (30 ms baseline, 15 ms full), whatever releases lie
\* between them.
C14_MinimumSpacing ==
    \A i \in Calls :
        (Accepted(i) /\ PrevAccepted(i) # 0) =>
            DtPress(i) >= REPEAT_CHATTER_THRESHOLD_MS(variant)

\* two consecutive accepted presses closer than the initial threshold with a
\* release between them
C14_Witness ==
    \E i \in Calls :
        /\ Accepted(i) /\ PrevAccepted(i) # 0
        /\ DtPress(i) < InitialThreshold(variant)
        /\ \E m \in Between(PrevAccepted(i), i) : IsRelease(m)

-----------------------------------------------------------------------------
(* C15 *)

\* C15: in both builds a press arriving at least the initial threshold after
\* the key's last accepted press is accepted; no blocked press lies that far
\* from the last accepted one.
C15_PassAfterStrictWindow ==
    \A i \in Calls :
        (IsPress(i) /\ PrevAccepted(i) # 0
           /\ DtPress(i) >= InitialThreshold(variant)) => ~trace[i].block

\* in a press train, a blocked press and then a press exactly the initial
\* threshold after the last accepted one, accepted outside repeat mode
C15_Witness ==
    \E i, j \in Calls :
        /\ i < j
        /\ Blocked(i) /\ Accepted(j)
        /\ PrevAccepted(i) # 0 /\ PrevAccepted(j) = PrevAccepted(i)
        /\ NoReleaseFrom(PrevAccepted(i), j)
        /\ ~Before(j).inRepeatMode
        /\ DtPress(j) = InitialThreshold(variant)

-----------------------------------------------------------------------------
(* C18 *)

\* C18: in both builds inRepeatMode implies lastPressTime >= lastReleaseTime,
\* so whenever the double-tap override of the full build fires inRepeatMode
\* is already false.
C18_RepeatModeImpliesPressLatest ==
    /\ \A k \in VKeys :
          keyStates[k].inRepeatMode =>
              keyStates[k].lastPressTime >= keyStates[k].lastReleaseTime
    /\ \A i \in Calls :
          (variant = "full" /\ IsPress(i)
             /\ Before(i).lastPressTime # 0
             /\ Before(i).lastReleaseTime > Before(i).lastPressTime
             /\ trace[i].time - Before(i).lastReleaseTime
                   >= MIN_RELEASE_DURATION_MS) =>
              /\ ~Before(i).inRepeatMode
              /\ After(i) = [Before(i) EXCEPT !.lastPressTime = trace[i].time]

\* a key of the full build enters repeat mode, is released, and the override
\* fires on its next press
C18_Witness ==
    \E i, j, m \in Calls :
        /\ variant = "full"
        /\ i < j /\ j < m
        /\ IsPress(i) /\ After(i).inRepeatMode
        /\ IsRelease(j) /\ Before(j).inRepeatMode
        /\ Accepted(m) /\ DoubleTapCase(m)
        /\ Before(m).lastReleaseTime > Before(m).lastPressTime

-----------------------------------------------------------------------------
(* PatternBasedChatterBlocker (Python): variant = "pattern".  keyStates[k]   *)
(* holds the key's entries of press_history, last_release_time and          *)
(* blocked_count; timestamps are whole milliseconds.                        *)

\* self.history_size
HISTORY_SIZE == 5

\* hook calls per run under SpecPattern
MaxPatternEvents == 7

\* clock advances before a press and before a release under SpecPattern
PatternDeltas == {10, 25, 40, 70}

PatternReleaseDeltas == {5}

\* the defaultdict entries of a key that has not been seen
NewPatternState ==
    [press_history |-> <<>>, last_release_time |-> 0, blocked_count |-> 0]

Abs(x) == IF x < 0 THEN -x ELSE x

\* faulty variant: the secondary floor is inclusive
PatternIrregular_Inclusive(history, time_since_last) ==
    LET n == Len(history)
        sum == (history[n - 1] - history[n - 2]) + (history[n] - history[n - 1])
    IN  time_since_last <= 40 /\ Abs(2 * time_since_last - sum) > 40

\* time_since_last < 40 and abs(time_since_last - avg_interval) > 20, with
\* avg_interval = sum(intervals) / 2 over the last two intervals; both sides
\* of the second comparison are doubled to stay in the integers
PatternIrregular(history, time_since_last) ==
    LET n == Len(history)
        sum == (history[n - 1] - history[n - 2]) + (history[n] - history[n - 1])
    IN  time_since_last < 40 /\ Abs(2 * time_since_last - sum) > 40

\* faulty variant: the history is never trimmed
PatternAppend_NoTrim(history, current_time) == Append(history, current_time)

\* history.append(current_time); if len(history) > history_size: pop(0)
PatternAppend(history, current_time) ==
    LET h == Append(history, current_time)
    IN  IF Len(h) > HISTORY_SIZE THEN Tail(h) ELSE h

\* the two blocking returns: blocked_count += 1, return True
PatternBlock(state) ==
    [state |-> [state EXCEPT !.blocked_count = @ + 1], block |-> TRUE]

\* PatternBasedChatterBlocker.should_block_key
PatternShouldBlockKey(state, current_time) ==
    LET history == state.press_history
    IN  IF history = <<>>
        THEN [state |-> [state EXCEPT !.press_history = <<current_time>>],
              block |-> FALSE]
        ELSE LET time_since_last == current_time - history[Len(history)]
             IN  IF time_since_last < 20 THEN PatternBlock(state)
                 ELSE IF Len(history) >= 3
                           /\ PatternIrregular(history, time_since_last)
                      THEN PatternBlock(state)
                      ELSE [state |-> [state EXCEPT !.press_history =
                                         PatternAppend(history, current_time)],
                            block |-> FALSE]

\* PatternBasedChatterBlocker.on_release
PatternRelease(state, current_time) ==
    [state |-> [state EXCEPT !.last_release_time = current_time],
     block |-> FALSE]

InitPattern ==
    /\ variant = "pattern"
    /\ now = StartTime
    /\ keyStates = [k \in VKeys |-> NewPatternState]
    /\ trace = <<>>

\* one listener callback for key k, d ms after the last one
PatternCall(k, isKeyDown, d) ==
    LET current_time == now + d
        r == IF isKeyDown THEN PatternShouldBlockKey(keyStates[k], current_time)
                          ELSE PatternRelease(keyStates[k], current_time)
        after == [keyStates EXCEPT ![k] = r.state]
    IN  /\ now' = current_time
        /\ keyStates' = after
        /\ trace' = Append(trace,
               [vkCode |-> k, isKeyDown |-> isKeyDown,
                time |-> current_time, block |-> r.block,
                before |-> keyStates, after |-> after])
        /\ UNCHANGED variant

PatternOnPress ==
    /\ Len(trace) < MaxPatternEvents
    /\ \E d \in PatternDeltas : PatternCall(KeyA, TRUE, d)

PatternOnRelease ==
    /\ Len(trace) < MaxPatternEvents
    /\ \E d \in PatternReleaseDeltas : PatternCall(KeyA, FALSE, d)

NextPattern == PatternOnPress \/ PatternOnRelease

SpecPattern == InitPattern /\ [][NextPattern]_vars

-----------------------------------------------------------------------------
(* C16 *)

\* the times of the accepted presses of the key of call i, among the first n
\* calls, in arrival order
AcceptedTimes(i, n) ==
    LET acc == SelectSeq(SubSeq(trace, 1, n),
                         LAMBDA e : /\ e.vkCode = trace[i].vkCode
                                    /\ e.isKeyDown /\ ~e.block)
    IN  [m \in 1..Len(acc) |-> acc[m].time]

\* C16: the first press of a key is accepted; with gap the time since the
\* last accepted press, a press with gap < 20 is blocked, one with gap >= 40
\* is accepted, and one with 20 <= gap < 40 is blocked iff at least 3
\* accepted presses are in the history and gap differs from the average of
\* the last two inter-press intervals by more than 20.
C16_PatternDecisionRule ==
    \A i \in Calls :
        IsPress(i) =>
            LET acc == AcceptedTimes(i, i - 1)
                n == Len(acc)
                gap == trace[i].time - acc[n]
            IN  IF n = 0 THEN ~trace[i].block
                ELSE /\ gap < 20 => trace[i].block
                     /\ gap >= 40 => ~trace[i].block
                     /\ (20 <= gap /\ gap < 40) =>
                           (trace[i].block <=>
                              (n >= 3 /\
                               Abs(2 * gap - (acc[n] - acc[n - 2])) > 40))

\* a press in the 20..39 window blocked as irregular, and an earlier press
\* in the same window accepted
C16_Witness ==
    \E i, j \in Calls :
        /\ i < j
        /\ Accepted(i) /\ PrevAccepted(i) # 0
        /\ DtPress(i) >= 20 /\ DtPress(i) < 40
        /\ Blocked(j) /\ DtPress(j) >= 20 /\ DtPress(j) < 40
        /\ Len(Before(j).press_history) >= 3

-----------------------------------------------------------------------------
(* C17 *)

\* the last n entries of sequence q (all of it when it is shorter)
LastN(q, n) ==
    IF Len(q) <= n THEN q ELSE SubSeq(q, Len(q) - n + 1, Len(q))

\* C17: after every call the press history of the key holds at most 5
\* timestamps, exactly the most recent accepted presses in arrival order,
\* and consecutive entries are at least 20 ms apart.
C17_PatternHistory ==
    \A i \in Calls :
        LET h == After(i).press_history
        IN  /\ Len(h) <= 5
            /\ h = LastN(AcceptedTimes(i, i), 5)
            /\ \A m \in 1..(Len(h) - 1) : h[m + 1] - h[m] >= 20

\* six presses accepted and one blocked: the history holds the last five
C17_Witness ==
    \E i \in Calls :
        /\ Len(AcceptedTimes(i, i)) = 6
        /\ Len(After(i).press_history) = 5
        /\ After(i).press_history[5] = trace[i].time
        /\ \E j \in Calls : j < i /\ Blocked(j)

-----------------------------------------------------------------------------
(* AdaptiveChatterBlocker (Python) beside the baseline ShouldBlockKey: both *)
(* receive every event with the same timestamp, the Python class running    *)
(* with the baseline's thresholds.  keyStates[k] holds the pair of states.  *)

\* hook calls per run under SpecPair
MaxPairEvents == 4

\* clock advances between events under SpecPair
PairDeltas == {1, 40, 151}

\* the defaultdict entries of a key that has not been seen
NewAdaptiveState ==
    [last_press_time |-> 0, last_release_time |-> 0,
     in_repeat_mode |-> FALSE, blocked_count |-> 0]

\* AdaptiveChatterBlocker.should_block_key with the thresholds of build v:
\* no first-press test, time_since_press is taken against the default 0
AdaptiveShouldBlockKey(v, state, current_time) ==
    LET time_since_press == current_time - state.last_press_time
        threshold == IF state.in_repeat_mode
                     THEN REPEAT_CHATTER_THRESHOLD_MS(v)
                     ELSE InitialThreshold(v)
        repeat == IF state.in_repeat_mode THEN TRUE
                  ELSE time_since_press > REPEAT_TRANSITION_DELAY_MS(v)
        s1 == [state EXCEPT !.in_repeat_mode = repeat]
    IN  IF time_since_press < threshold
        THEN [state |-> [s1 EXCEPT !.blocked_count = @ + 1], block |-> TRUE]
        ELSE [state |-> [s1 EXCEPT !.last_press_time = current_time],
              block |-> FALSE]

\* AdaptiveChatterBlocker.on_release
AdaptiveOnRelease(state, current_time) ==
    [state |-> [state EXCEPT !.last_release_time = current_time,
                             !.in_repeat_mode = FALSE],
     block |-> FALSE]

\* every timestamp of the run is above the transition delay
InitPair ==
    /\ variant = "baseline"
    /\ now = REPEAT_TRANSITION_DELAY_MS("baseline") + StartTime
    /\ keyStates = [k \in VKeys |-> [cpp |-> NewKeyState,
                                     py |-> NewAdaptiveState]]
    /\ trace = <<>>

\* one event for key k, d ms after the last one, handed to both classifiers
PairCall(k, isKeyDown, d) ==
    LET current_time == now + d
        c == ShouldBlockKey(variant, keyStates[k].cpp, isKeyDown, current_time)
        p == IF isKeyDown
             THEN AdaptiveShouldBlockKey(variant, keyStates[k].py, current_time)
             ELSE AdaptiveOnRelease(keyStates[k].py, current_time)
        after == [keyStates EXCEPT ![k] = [cpp |-> c.state, py |-> p.state]]
    IN  /\ now' = current_time
        /\ keyStates' = after
        /\ trace' = Append(trace,
               [vkCode |-> k, isKeyDown |-> isKeyDown,
                time |-> current_time, block |-> c.block,
                pyBlock |-> p.block,
                before |-> keyStates, after |-> after])
        /\ UNCHANGED variant

PairPress ==
    /\ Len(trace) < MaxPairEvents
    /\ \E d \in PairDeltas : PairCall(KeyA, TRUE, d)

PairRelease ==
    /\ Len(trace) < MaxPairEvents
    /\ \E d \in PairDeltas : PairCall(KeyA, FALSE, d)

NextPair == PairPress \/ PairRelease

SpecPair == InitPair /\ [][NextPair]_vars

-----------------------------------------------------------------------------
(* C19 *)

\* C19: on the same events, all with timestamps above the transition delay,
\* the Python classifier and the baseline return the same block decision for
\* every press and agree on inRepeatMode after every event; after the first
\* press of a key inRepeatMode is false in both.
C19_AdaptiveMatchesBaseline ==
    \A i \in Calls :
        /\ trace[i].time > REPEAT_TRANSITION_DELAY_MS(variant)
        /\ IsPress(i) => trace[i].pyBlock = trace[i].block
        /\ After(i).py.in_repeat_mode = After(i).cpp.inRepeatMode
        /\ (IsPress(i) /\ \A j \in CallsOf(trace[i].vkCode) :
                             j < i => ~IsPress(j))
              => /\ ~After(i).py.in_repeat_mode
                 /\ ~After(i).cpp.inRepeatMode

-----------------------------------------------------------------------------
(* The raw-input build (WindowProc): variant = "rawinput".  A DWORD is kept *)
(* as its two 16-bit halves.  now holds the time in ms since the start of   *)
(* the run and the value GetTickCount returns at that moment; keyStates[k]  *)
(* tells whether lastPressTime has an entry for k and the DWORD it holds.   *)

\* CHATTER_THRESHOLD_MS of the raw-input build
RAW_CHATTER_THRESHOLD_MS == 100

\* raw-input messages per run under SpecRaw
MaxRawEvents == 4

\* clock advances between messages under SpecRaw
RawDeltas == {0, 50, 99, 100}

\* a DWORD is hi * 2^16 + lo
Half == 2^16

\* a + d on DWORDs, for 0 <= d < 2^16
DwordAdd(a, d) ==
    LET lo == a.lo + d
    IN  [hi |-> (a.hi + (lo \div Half)) % Half, lo |-> lo % Half]

\* a < b as unsigned values
DwordBelow(a, b) == a.hi < b.hi \/ (a.hi = b.hi /\ a.lo < b.lo)

\* faulty variant: the difference does not wrap, a negative one becomes 0
DwordSub_NoWrap(a, b) ==
    IF DwordBelow(a, b) THEN [hi |-> 0, lo |-> 0]
    ELSE LET lo == a.lo - b.lo
             borrow == IF lo < 0 THEN 1 ELSE 0
         IN  [hi |-> a.hi - b.hi - borrow, lo |-> lo % Half]

\* now - it->second on DWORDs: the difference modulo 2^32
DwordSub(a, b) ==
    LET lo == a.lo - b.lo
        borrow == IF lo < 0 THEN 1 ELSE 0
    IN  [hi |-> (a.hi - b.hi - borrow) % Half, lo |-> lo % Half]

\* a DWORD compared with a constant below 2^16
DwordLess(a, n) == a.hi = 0 /\ a.lo < n

\* the runs start just after boot or 50 ms before the counter wraps
RawStartTicks ==
    {[hi |-> 0, lo |-> StartTime], [hi |-> Half - 1, lo |-> Half - 50]}

\* lastPressTime without an entry for the key
NoEntry == [present |-> FALSE, time |-> [hi |-> 0, lo |-> 0]]

\* it != lastPressTime.end() && now - it->second < CHATTER_THRESHOLD_MS
RawChatter(state, tick) ==
    /\ state.present
    /\ DwordLess(DwordSub(tick, state.time), RAW_CHATTER_THRESHOLD_MS)

\* the make branch: return 0 on chatter, else lastPressTime[key] = now
RawKeyDown(state, tick) ==
    IF RawChatter(state, tick)
    THEN [state |-> state, block |-> TRUE]
    ELSE [state |-> [present |-> TRUE, time |-> tick], block |-> FALSE]

\* RI_KEY_BREAK: the table is not consulted, the message goes on
RawKeyUp(state) == [state |-> state, block |-> FALSE]

InitRaw ==
    /\ variant = "rawinput"
    /\ \E t \in RawStartTicks : now = [time |-> 0, tick |-> t]
    /\ keyStates = [k \in VKeys |-> NoEntry]
    /\ trace = <<>>

\* one WM_INPUT keyboard message for key k, d ms after the last one
WindowProc(k, isKeyDown, d) ==
    LET tick == DwordAdd(now.tick, d)
        r == IF isKeyDown THEN RawKeyDown(keyStates[k], tick)
                          ELSE RawKeyUp(keyStates[k])
        after == [keyStates EXCEPT ![k] = r.state]
    IN  /\ now' = [time |-> now.time + d, tick |-> tick]
        /\ keyStates' = after
        /\ trace' = Append(trace,
               [vkCode |-> k, isKeyDown |-> isKeyDown,
                time |-> now.time + d, tick |-> tick, block |-> r.block,
                before |-> keyStates, after |-> after])
        /\ UNCHANGED variant

RawMake ==
    /\ Len(trace) < MaxRawEvents
    /\ \E d \in RawDeltas : WindowProc(KeyA, TRUE, d)

RawBreak ==
    /\ Len(trace) < MaxRawEvents
    /\ \E d \in RawDeltas : WindowProc(KeyA, FALSE, d)

NextRaw == RawMake \/ RawBreak

SpecRaw == InitRaw /\ [][NextRaw]_vars

-----------------------------------------------------------------------------
(* C20 *)

\* C20: a press is blocked iff the key has a recorded accepted press and
\* (now - last) mod 2^32 < 100, last being the tick of that press, that is,
\* iff the tick is last + n modulo 2^32 for some n below 100; the decision
\* therefore agrees with the real time elapsed since the last accepted
\* press, also when the tick counter wraps between the two; a blocked press
\* leaves the table unchanged and so does every release, which is never
\* blocked.
C20_RawInputWrapSafe ==
    \A i \in Calls :
        /\ IsPress(i) =>
              /\ Before(i).present <=> PrevAccepted(i) # 0
              /\ Before(i).present =>
                    Before(i).time = trace[PrevAccepted(i)].tick
              /\ trace[i].block <=>
                    (PrevAccepted(i) # 0 /\
                     \E n \in 0..99 :
                        DwordAdd(trace[PrevAccepted(i)].tick, n) = trace[i].tick)
              /\ trace[i].block <=> (PrevAccepted(i) # 0 /\ DtPress(i) < 100)
              /\ trace[i].block => trace[i].after = trace[i].before
              /\ ~trace[i].block => After(i) = [present |-> TRUE,
                                                time |-> trace[i].tick]
        /\ IsRelease(i) =>
              /\ ~trace[i].block
              /\ trace[i].after = trace[i].before

\* the counter wraps after an accepted press: the next press, 50 ms after
\* it, is blocked and the one 100 ms after it is accepted, both with a tick
\* below the recorded one; a release in between changed nothing
C20_Witness ==
    \E i, j \in Calls :
        /\ i < j
        /\ Blocked(i) /\ DwordBelow(trace[i].tick, Before(i).time)
        /\ DtPress(i) = 50
        /\ Accepted(j) /\ DwordBelow(trace[j].tick, Before(j).time)
        /\ DtPress(j) = 100
        /\ PrevAccepted(j) = PrevAccepted(i)
        /\ \E m \in Calls : i < m /\ m < j /\ IsRelease(m)

=============================================================================
